---- MODULE Spec2Model ----
(***************************************************************************)
(* The signal controller of src/src/components/SimulationSection.tsx: the  *)
(* two traffic lights (north-south and east-west), the once-per-second     *)
(* light tick, the periodic optimization update and the configuration      *)
(* setters of the control panel.                                           *)
(*                                                                         *)
(* The React state cells are the variables.  Each callback runs to         *)
(* completion on the single JavaScript thread, so each is one action.  The *)
(* interval timers are not timed here: a callback may fire whenever the    *)
(* effect that installs it has installed it (its early return is the       *)
(* guard).                                                                 *)
(*                                                                         *)
(* The lights read the vehicle list only through per-axis counts of        *)
(* waiting and of moving vehicles; the list is kept as a sequence of       *)
(* vehicles carrying the two fields those counts read.                     *)
(***************************************************************************)
EXTENDS Integers, Sequences, FiniteSets, TLC

(***************************************************************************)
(* Bounds of the model.                                                    *)
(***************************************************************************)
\* Largest number of live vehicles in the interleaving specification.
MaxVehicles == 1
\* Largest per-axis number of waiting vehicles in the evaluation specification.
MaxWaiting == 10
\* Largest per-axis number of moving vehicles in the evaluation specification.
MaxApproaching == 1
\* The half seconds the animation loop is followed for.
MaxClock == 2
\* Largest timeLeft of a green light in an initial state of the resolution
\* specification.
MaxGreenLeft == 4
\* Largest number of completion timestamps in the throughput window of an
\* initial state of the statistics specification.
MaxStamps == 2
\* Half the width and half the height of the canvas, in pixels.
HalfWidth == 200
HalfHeight == 200

(***************************************************************************)
(* Program constants.                                                      *)
(***************************************************************************)
BaseDuration == 20
YellowTime == 3
CountdownStart == 3
\* The period of the light interval, 1000 ms, in half seconds.
TickPeriod == 2
AdaptiveMin == 10
AdaptiveMax == 30
AdaptiveShorten == 2
AdaptiveLengthen == 3
PredictiveMin == 12
PredictiveMax == 35
PredictiveShorten == 3
PredictiveLengthen == 5
InitialDensity == 40
DensityMax == 100
\* Math.random() * 100 of the spawn test
SpawnRange == 100
\* speed: 40 + Math.random() * 20
SpeedBase == 40
SpeedSpread == 20
RoadWidth == 60
ApproachLength == 100
SpawnMargin == 20
BoundsMargin == 50
CarLength == 15
TruckLength == 25
BusLength == 30
\* waitTime > 0.5, in half seconds
SampleThreshold == 1
\* slice(-100) of the wait samples
WaitWindow == 100
\* now - 60000, in half seconds
MinuteLength == 120

LightDirections == {"ns", "ew"}
LightStates == {"red", "yellow", "green"}
AlgorithmTypes == {"fixed", "adaptive", "predictive"}

VARIABLES
    isRunning,            \* useState(true)
    optimizationEnabled,  \* useState(false)
    algorithmType,        \* useState('adaptive')
    trafficLights,        \* the two lights, by direction
    vehicles,             \* the live vehicle list
    prevLights,           \* trafficLights before the last step
    lastOp,               \* the callback that made the last step
    density,              \* useState(40)
    clock,                \* Date.now(), in half seconds
    lastFrameTime,        \* lastFrameTimeRef.current
    vehicleIdCounter,     \* vehicleIdCounter.current
    waitTimes,            \* waitTimesRef.current
    throughputWindow,     \* throughputWindowRef.current
    completedVehicles,    \* completedVehiclesRef.current
    stats,                \* useState<SimulationStats>
    waitLog,              \* per vehicle that a pass of the run stopped: the
                          \* time of that pass, and whether the last pass
                          \* set it moving again
    frameLights,          \* trafficLights of the render whose animate is
                          \* the pending animation-frame callback
    lightDue,             \* the time the installed light interval fires
                          \* next, in half seconds; read while isRunning
    lastTick              \* the time of the last light tick, or of the last
                          \* click on the pause button

\* The state of the animation loop and of the statistics.
kinVars == <<density, clock, lastFrameTime, vehicleIdCounter, waitTimes,
             throughputWindow, completedVehicles, stats, waitLog>>

vars == <<isRunning, optimizationEnabled, algorithmType, trafficLights,
          vehicles, prevLights, lastOp, density, clock, lastFrameTime,
          vehicleIdCounter, waitTimes, throughputWindow, completedVehicles,
          stats, waitLog, frameLights, lightDue, lastTick>>

\* React has rendered after the step, which leaves the lights as they are:
\* the pending animate is the one of the render that holds them.
Rendered == frameLights' = trafficLights

\* The render after the step re-runs the traffic light timing effect, a
\* dependency of which has changed: clearInterval, then setInterval(..., 1000).
IntervalRestarted == lightDue' = clock + TickPeriod

\* Math.min and Math.max
Min(a, b) == IF a <= b THEN a ELSE b
Max(a, b) == IF a >= b THEN a ELSE b

(***************************************************************************)
(* Vehicles, as the lights see them.                                       *)
(***************************************************************************)
IsNS(v) == v.direction = "north" \/ v.direction = "south"
IsEW(v) == v.direction = "east" \/ v.direction = "west"

NsIsWaiting(v) == IsNS(v) /\ v.waiting
EwIsWaiting(v) == IsEW(v) /\ v.waiting
NsIsMoving(v) == IsNS(v) /\ ~v.waiting
EwIsMoving(v) == IsEW(v) /\ ~v.waiting

\* vehicles.filter(...).length
nsWaiting(vs) == Cardinality({i \in DOMAIN vs : NsIsWaiting(vs[i])})
ewWaiting(vs) == Cardinality({i \in DOMAIN vs : EwIsWaiting(vs[i])})
nsApproaching(vs) == Cardinality({i \in DOMAIN vs : NsIsMoving(vs[i])})
ewApproaching(vs) == Cardinality({i \in DOMAIN vs : EwIsMoving(vs[i])})

\* A vehicle list with the given numbers of waiting and moving vehicles per axis.
Traffic(nw, ew, na, ea) ==
    [i \in 1..nw |-> [direction |-> "north", waiting |-> TRUE]]
    \o [i \in 1..ew |-> [direction |-> "east", waiting |-> TRUE]]
    \o [i \in 1..na |-> [direction |-> "south", waiting |-> FALSE]]
    \o [i \in 1..ea |-> [direction |-> "west", waiting |-> FALSE]]

\* InitialLights with the EW line a copy of the NS line: both lights start green.
InitialLightsBothGreen ==
    [ns |-> [state |-> "green", duration |-> BaseDuration,
             timeLeft |-> BaseDuration, countdown |-> 0],
     ew |-> [state |-> "green", duration |-> BaseDuration,
             timeLeft |-> BaseDuration, countdown |-> 0]]

InitialLights ==
    [ns |-> [state |-> "green", duration |-> BaseDuration,
             timeLeft |-> BaseDuration, countdown |-> 0],
     ew |-> [state |-> "red", duration |-> BaseDuration,
             timeLeft |-> 0, countdown |-> CountdownStart]]

(***************************************************************************)
(* Traffic optimization logic: the callback of the 2-second interval.      *)
(* The JavaScript comparisons against w * 0.7, w * 1.5 and w * 0.6 are     *)
(* made on integers scaled by ten; over the counts of this model the       *)
(* scaled comparison and the IEEE-754 one agree.                           *)
(***************************************************************************)
\* a < b * 0.7
Below07(a, b) == 10 * a < 7 * b
\* a < b * 0.6
Below06(a, b) == 10 * a < 6 * b
\* Above15 with a zero right-hand side treated as "no pressure".
Above15ZeroGuarded(a, b) == b > 0 /\ 2 * a > 3 * b

\* a > b * 1.5
Above15(a, b) == 2 * a > 3 * b

\* waiting * 1.2 + approaching * 0.5, in tenths
TrafficScore(waiting, approaching) == 12 * waiting + 5 * approaching

\* AdaptiveDuration with the lower clamp left out.
AdaptiveDurationUnclamped(light, dir, nsW, ewW) ==
    IF dir = "ns" /\ Below07(nsW, ewW)
      THEN light.duration - AdaptiveShorten
    ELSE IF dir = "ew" /\ Below07(ewW, nsW)
      THEN light.duration - AdaptiveShorten
    ELSE IF dir = "ns" /\ Above15(nsW, ewW)
      THEN Min(AdaptiveMax, light.duration + AdaptiveLengthen)
    ELSE IF dir = "ew" /\ Above15(ewW, nsW)
      THEN Min(AdaptiveMax, light.duration + AdaptiveLengthen)
    ELSE light.duration

\* newDuration of the adaptive branch for the light of direction dir
AdaptiveDuration(light, dir, nsW, ewW) ==
    IF dir = "ns" /\ Below07(nsW, ewW)
      THEN Max(AdaptiveMin, light.duration - AdaptiveShorten)
    ELSE IF dir = "ew" /\ Below07(ewW, nsW)
      THEN Max(AdaptiveMin, light.duration - AdaptiveShorten)
    ELSE IF dir = "ns" /\ Above15(nsW, ewW)
      THEN Min(AdaptiveMax, light.duration + AdaptiveLengthen)
    ELSE IF dir = "ew" /\ Above15(ewW, nsW)
      THEN Min(AdaptiveMax, light.duration + AdaptiveLengthen)
    ELSE light.duration

\* newDuration of the predictive branch for the light of direction dir
PredictiveDuration(light, dir, nsTraffic, ewTraffic) ==
    IF dir = "ns"
      THEN IF Below06(nsTraffic, ewTraffic)
             THEN Max(PredictiveMin, light.duration - PredictiveShorten)
           ELSE IF Above15(nsTraffic, ewTraffic)
             THEN Min(PredictiveMax, light.duration + PredictiveLengthen)
           ELSE light.duration
    ELSE IF dir = "ew"
      THEN IF Below06(ewTraffic, nsTraffic)
             THEN Max(PredictiveMin, light.duration - PredictiveShorten)
           ELSE IF Above15(ewTraffic, nsTraffic)
             THEN Min(PredictiveMax, light.duration + PredictiveLengthen)
           ELSE light.duration
    ELSE light.duration

\* newDuration computed by the active algorithm for a green light
NewDuration(light, dir, alg, vs) ==
    IF alg = "adaptive"
      THEN AdaptiveDuration(light, dir, nsWaiting(vs), ewWaiting(vs))
    ELSE IF alg = "predictive"
      THEN PredictiveDuration(light, dir,
               TrafficScore(nsWaiting(vs), nsApproaching(vs)),
               TrafficScore(ewWaiting(vs), ewApproaching(vs)))
    ELSE light.duration

\* OptimizedLight restarting the green phase: timeLeft = newDuration.
OptimizedLightRestarts(light, dir, alg, vs) ==
    IF light.state # "green"
      THEN light
      ELSE LET newDuration == NewDuration(light, dir, alg, vs)
           IN  [light EXCEPT !.duration = newDuration,
                             !.timeLeft = newDuration]

\* The body of prev.map: lights that are not green are returned unchanged.
OptimizedLight(light, dir, alg, vs) ==
    IF light.state # "green"
      THEN light
      ELSE LET newDuration == NewDuration(light, dir, alg, vs)
           IN  [light EXCEPT !.duration = newDuration,
                             !.timeLeft = Min(newDuration, light.timeLeft)]

\* OptimizedLights with the fixed algorithm falling through to the adaptive branch.
OptimizedLightsFixedFallsThrough(L, alg, vs) ==
    [d \in LightDirections |->
        OptimizedLight(L[d], d, IF alg = "fixed" THEN "adaptive" ELSE alg, vs)]

\* The lights after one run of the optimization callback; with the fixed
\* algorithm the callback calls no setter.
OptimizedLights(L, alg, vs) ==
    IF alg \in {"adaptive", "predictive"}
      THEN [d \in LightDirections |-> OptimizedLight(L[d], d, alg, vs)]
      ELSE L

(***************************************************************************)
(* Traffic light timing logic: the callback of the 1-second interval.      *)
(* L is updatedLights, the deep copy of prev that the callback mutates     *)
(* statement by statement.                                                 *)
(***************************************************************************)
\* First, decrement countdown timers for lights in red state.
DecrementCountdowns(L) ==
    [d \in LightDirections |->
        IF L[d].state = "red" /\ L[d].countdown > 0
          THEN [L[d] EXCEPT !.countdown = Max(0, L[d].countdown - 1)]
          ELSE L[d]]

\* DecrementTimeLeft without Math.max(0, ...).
DecrementTimeLeftUnclamped(L) ==
    [d \in LightDirections |-> [L[d] EXCEPT !.timeLeft = L[d].timeLeft - 1]]

\* Then, decrement timeLeft for all lights.
DecrementTimeLeft(L) ==
    [d \in LightDirections |-> [L[d] EXCEPT !.timeLeft = Max(0, L[d].timeLeft - 1)]]

\* Math.floor(n / 3) for n >= 0
FloorThird(n) == n \div 3

\* The timeLeft given to a light that turns red, from the traffic of the
\* other axis.  Math.floor((w + a * 0.5) / 3) is floor((2w + a) / 6).
RedTimeLeft(opt, alg, otherWaiting, otherApproaching) ==
    IF opt
      THEN IF alg = "adaptive"
             THEN Max(15, Min(30, 15 + FloorThird(otherWaiting)))
           ELSE IF alg = "predictive"
             THEN Max(20, Min(35, 20 + ((2 * otherWaiting + otherApproaching) \div 6)))
           ELSE 20
      ELSE 20

\* ProcessNsLight with the assignment timeLeft = 3 of green -> yellow left out.
ProcessNsLightNoYellowTime(L, opt, alg, vs) ==
    IF L["ns"].timeLeft = 0
      THEN IF L["ns"].state = "green"
             THEN [L EXCEPT !["ns"].state = "yellow"]
           ELSE IF L["ns"].state = "yellow"
             THEN [L EXCEPT !["ns"].state = "red",
                            !["ns"].timeLeft =
                                RedTimeLeft(opt, alg, ewWaiting(vs), ewApproaching(vs)),
                            !["ew"].countdown = CountdownStart]
           ELSE L
      ELSE L

\* if (nsLight.timeLeft === 0) { green -> yellow | yellow -> red }
ProcessNsLight(L, opt, alg, vs) ==
    IF L["ns"].timeLeft = 0
      THEN IF L["ns"].state = "green"
             THEN [L EXCEPT !["ns"].state = "yellow", !["ns"].timeLeft = YellowTime]
           ELSE IF L["ns"].state = "yellow"
             THEN [L EXCEPT !["ns"].state = "red",
                            !["ns"].timeLeft =
                                RedTimeLeft(opt, alg, ewWaiting(vs), ewApproaching(vs)),
                            !["ew"].countdown = CountdownStart]
           ELSE L
      ELSE L

\* if (ewLight.timeLeft === 0) { green -> yellow | yellow -> red }
ProcessEwLight(L, opt, alg, vs) ==
    IF L["ew"].timeLeft = 0
      THEN IF L["ew"].state = "green"
             THEN [L EXCEPT !["ew"].state = "yellow", !["ew"].timeLeft = YellowTime]
           ELSE IF L["ew"].state = "yellow"
             THEN [L EXCEPT !["ew"].state = "red",
                            !["ew"].timeLeft =
                                RedTimeLeft(opt, alg, nsWaiting(vs), nsApproaching(vs)),
                            !["ns"].countdown = CountdownStart]
           ELSE L
      ELSE L

\* NsCountdownComplete starting the green phase at the baseline of 20 ticks.
NsCountdownCompleteBaseline(L) ==
    IF L["ns"].countdown = 0 /\ L["ns"].state = "red" /\ L["ew"].state = "red"
      THEN [L EXCEPT !["ns"].state = "green", !["ns"].timeLeft = BaseDuration]
      ELSE L

\* Both lights red and the NS countdown complete: make NS green.
NsCountdownComplete(L) ==
    IF L["ns"].countdown = 0 /\ L["ns"].state = "red" /\ L["ew"].state = "red"
      THEN [L EXCEPT !["ns"].state = "green", !["ns"].timeLeft = L["ns"].duration]
      ELSE L

\* EwCountdownComplete testing "NS is not green" where the code tests "NS is red".
EwCountdownCompleteNotGreen(L) ==
    IF L["ew"].countdown = 0 /\ L["ew"].state = "red" /\ L["ns"].state # "green"
      THEN [L EXCEPT !["ew"].state = "green", !["ew"].timeLeft = L["ew"].duration]
      ELSE L

\* Both lights red and the EW countdown complete: make EW green.
EwCountdownComplete(L) ==
    IF L["ew"].countdown = 0 /\ L["ew"].state = "red" /\ L["ns"].state = "red"
      THEN [L EXCEPT !["ew"].state = "green", !["ew"].timeLeft = L["ew"].duration]
      ELSE L

\* SafetyCheck without the comparison of the two timeLeft: NS always wins.
SafetyCheckNsWins(L) ==
    IF L["ns"].state = "green" /\ L["ew"].state = "green"
      THEN [L EXCEPT !["ew"].state = "red",
                     !["ew"].timeLeft = L["ns"].timeLeft + 3]
      ELSE L

\* Safety check - never both green at same time.
SafetyCheck(L) ==
    IF L["ns"].state = "green" /\ L["ew"].state = "green"
      THEN IF L["ns"].timeLeft >= L["ew"].timeLeft
             THEN [L EXCEPT !["ew"].state = "red",
                            !["ew"].timeLeft = L["ns"].timeLeft + 3]
             ELSE [L EXCEPT !["ns"].state = "red",
                            !["ns"].timeLeft = L["ew"].timeLeft + 3]
      ELSE L

\* updatedLights after the two decrements and the two transition blocks
AfterTransitions(L, opt, alg, vs) ==
    ProcessEwLight(
        ProcessNsLight(DecrementTimeLeft(DecrementCountdowns(L)), opt, alg, vs),
        opt, alg, vs)

\* TickedLights with an EW countdown completion that does not test NS.
TickedLightsEwAlone(L, opt, alg, vs) ==
    LET mid == NsCountdownComplete(AfterTransitions(L, opt, alg, vs))
    IN  SafetyCheck(
            IF mid["ew"].countdown = 0 /\ mid["ew"].state = "red"
              THEN [mid EXCEPT !["ew"].state = "green",
                               !["ew"].timeLeft = mid["ew"].duration]
              ELSE mid)

\* The value the updater returns: the lights after one tick.
TickedLights(L, opt, alg, vs) ==
    SafetyCheck(EwCountdownComplete(NsCountdownComplete(
        AfterTransitions(L, opt, alg, vs))))

(***************************************************************************)
(* The animation loop: spawning and the kinematics pass.                   *)
(*                                                                         *)
(* Date.now() is the variable clock, counted in half seconds from the      *)
(* initial state, so that the 0.5 s test of the wait sample has both of    *)
(* its sides; a timestamp the code takes is the value of clock at that     *)
(* step, and deltaTime is a number of half seconds.  Coordinates are       *)
(* canvas pixels.                                                          *)
(***************************************************************************)
Directions == {"north", "south", "east", "west"}
VehicleTypes == {"car", "truck", "bus"}
Lanes == {0, 1}

\* canvas.width and canvas.height are those of the container element.
canvasWidth == 2 * HalfWidth
canvasHeight == 2 * HalfHeight
center == [x |-> HalfWidth, y |-> HalfHeight]

laneWidth == RoadWidth \div 2

\* 40 + Math.random() * 20, for Math.random() of 0 and of 0.5
SpeedChoices == {SpeedBase, SpeedBase + SpeedSpread \div 2}

\* The values of vehicleIdCounter at which a vehicle is generated: one vehicle
\* per run; the scenes supply the lists of several vehicles.
SpawnIds == {0}

\* The values the density slider is moved to.
DensityChoices == {InitialDensity, DensityMax}

\* laneWidth * 0.5 + lane * laneWidth
laneOffset(lane) == laneWidth \div 2 + lane * laneWidth

\* The lateral coordinate generateVehicle assigns.
SpawnLateral(direction, lane) ==
    CASE direction = "north" -> center.x + laneOffset(lane)
      [] direction = "south" -> center.x - laneOffset(lane)
      [] direction = "east"  -> center.y + laneOffset(lane)
      [] direction = "west"  -> center.y - laneOffset(lane)

\* The position generateVehicle assigns.
SpawnPosition(direction, lane) ==
    CASE direction = "north" ->
             [x |-> SpawnLateral(direction, lane), y |-> canvasHeight + SpawnMargin]
      [] direction = "south" ->
             [x |-> SpawnLateral(direction, lane), y |-> 0 - SpawnMargin]
      [] direction = "east" ->
             [x |-> 0 - SpawnMargin, y |-> SpawnLateral(direction, lane)]
      [] direction = "west" ->
             [x |-> canvasWidth + SpawnMargin, y |-> SpawnLateral(direction, lane)]

\* The vehicle generateVehicle appends.
NewVehicle(id, type, direction, lane, speed, now) ==
    [id |-> id, type |-> type, direction |-> direction,
     position |-> SpawnPosition(direction, lane), speed |-> speed,
     waiting |-> FALSE, created |-> now, lane |-> lane]

vehicleLength(type) ==
    IF type = "car" THEN CarLength
    ELSE IF type = "truck" THEN TruckLength ELSE BusLength

canPassCrossAxis(direction, L) ==
    \/ /\ direction \in {"north", "south"}
       /\ L["ew"].state \in {"green", "yellow"}
    \/ /\ direction \in {"east", "west"}
       /\ L["ns"].state \in {"green", "yellow"}

canPass(direction, L) ==
    \/ /\ direction \in {"north", "south"}
       /\ L["ns"].state \in {"green", "yellow"}
    \/ /\ direction \in {"east", "west"}
       /\ L["ew"].state \in {"green", "yellow"}

approachingIntersection(direction, position) ==
    \/ /\ direction = "north"
       /\ position.y > center.y + RoadWidth
       /\ position.y < center.y + RoadWidth + ApproachLength
    \/ /\ direction = "south"
       /\ position.y < center.y - RoadWidth
       /\ position.y > center.y - RoadWidth - ApproachLength
    \/ /\ direction = "east"
       /\ position.x < center.x - RoadWidth
       /\ position.x > center.x - RoadWidth - ApproachLength
    \/ /\ direction = "west"
       /\ position.x > center.x + RoadWidth
       /\ position.x < center.x + RoadWidth + ApproachLength

inIntersection(position) ==
    /\ position.x > center.x - RoadWidth
    /\ position.x < center.x + RoadWidth
    /\ position.y > center.y - RoadWidth
    /\ position.y < center.y + RoadWidth

Abs(n) == IF n < 0 THEN 0 - n ELSE n

\* Math.abs of the difference along the travel axis
distance(direction, a, b) ==
    IF direction \in {"north", "south"} THEN Abs(a.y - b.y) ELSE Abs(a.x - b.x)

otherIsAheadReversed(direction, other, position) ==
    \/ direction = "north" /\ other.y > position.y
    \/ direction = "south" /\ other.y < position.y
    \/ direction = "east"  /\ other.x < position.x
    \/ direction = "west"  /\ other.x > position.x

otherIsAhead(direction, other, position) ==
    \/ direction = "north" /\ other.y < position.y
    \/ direction = "south" /\ other.y > position.y
    \/ direction = "east"  /\ other.x > position.x
    \/ direction = "west"  /\ other.x < position.x

IsVehicleAheadOneLength(other, vehicle, position) ==
    /\ other.id # vehicle.id
    /\ other.direction = vehicle.direction
    /\ other.lane = vehicle.lane
    /\ otherIsAhead(vehicle.direction, other.position, position)
    /\ distance(vehicle.direction, other.position, position)
           < vehicleLength(vehicle.type)

\* The predicate of prev.find: other blocks vehicle, standing at position.
IsVehicleAhead(other, vehicle, position) ==
    /\ other.id # vehicle.id
    /\ other.direction = vehicle.direction
    /\ other.lane = vehicle.lane
    /\ otherIsAhead(vehicle.direction, other.position, position)
    /\ distance(vehicle.direction, other.position, position)
           < vehicleLength(vehicle.type) * 2

\* prev.find(...) found a vehicle.
vehicleAhead(prev, vehicle, position) ==
    \E j \in DOMAIN prev : IsVehicleAhead(prev[j], vehicle, position)

TravelBackwards(speed, deltaTime) == 0 - (speed * deltaTime) \div 2

\* speed * deltaTime, deltaTime being a number of half seconds
Travel(speed, deltaTime) == (speed * deltaTime) \div 2

MovedMirrored(direction, lane, position, speed, deltaTime) ==
    CASE direction = "north" ->
             [x |-> center.x + laneOffset(lane),
              y |-> position.y - Travel(speed, deltaTime)]
      [] direction = "south" ->
             [x |-> center.x + laneOffset(lane),
              y |-> position.y + Travel(speed, deltaTime)]
      [] direction = "east" ->
             [x |-> position.x + Travel(speed, deltaTime),
              y |-> center.y + laneOffset(lane)]
      [] direction = "west" ->
             [x |-> position.x - Travel(speed, deltaTime),
              y |-> center.y + laneOffset(lane)]

\* The switch of the position update.
Moved(direction, lane, position, speed, deltaTime) ==
    CASE direction = "north" ->
             [x |-> center.x + laneOffset(lane),
              y |-> position.y - Travel(speed, deltaTime)]
      [] direction = "south" ->
             [x |-> center.x - laneOffset(lane),
              y |-> position.y + Travel(speed, deltaTime)]
      [] direction = "east" ->
             [x |-> position.x + Travel(speed, deltaTime),
              y |-> center.y + laneOffset(lane)]
      [] direction = "west" ->
             [x |-> position.x - Travel(speed, deltaTime),
              y |-> center.y - laneOffset(lane)]

outOfBoundsAtEdge(position) ==
    \/ position.x < 0
    \/ position.x > canvasWidth
    \/ position.y < 0
    \/ position.y > canvasHeight

outOfBounds(position) ==
    \/ position.x < 0 - BoundsMargin
    \/ position.x > canvasWidth + BoundsMargin
    \/ position.y < 0 - BoundsMargin
    \/ position.y > canvasHeight + BoundsMargin

\* waitTimesRef.current[waitTimesRef.current.length - 1] = waitTime: on an
\* empty array the index is -1, which sets a property and adds no element.
SetLast(w, waitTime) ==
    IF Len(w) = 0 THEN w ELSE [w EXCEPT ![Len(w)] = waitTime]

\* waitTimesRef.current.pop()
Pop(w) == IF Len(w) = 0 THEN w ELSE SubSeq(w, 1, Len(w) - 1)

\* The light branch of the decision: the vehicle is held at the stop line.
BlockedByLight(vehicle, L) ==
    /\ ~canPass(vehicle.direction, L)
    /\ approachingIntersection(vehicle.direction, vehicle.position)
    /\ ~inIntersection(vehicle.position)

\* waiting after the decision of one vehicle of the list prev
WaitingAfter(prev, vehicle, L) ==
    BlockedByLight(vehicle, L) \/ vehicleAhead(prev, vehicle, vehicle.position)

\* waitTimesRef.current after the decision of one vehicle
WaitTimesAfter(w, prev, vehicle, L, now) ==
    IF BlockedByLight(vehicle, L)
    THEN IF ~vehicle.waiting THEN Append(w, 0) ELSE w
    ELSE IF vehicleAhead(prev, vehicle, vehicle.position)
    THEN w
    ELSE IF vehicle.waiting
    THEN IF now - vehicle.created > SampleThreshold
         THEN SetLast(w, now - vehicle.created)
         ELSE Pop(w)
    ELSE w

\* position after the update of one vehicle
PositionAfter(prev, vehicle, L, speed, deltaTime) ==
    IF WaitingAfter(prev, vehicle, L)
    THEN vehicle.position
    ELSE Moved(vehicle.direction, vehicle.lane, vehicle.position, speed, deltaTime)

UpdatedWithoutSpread(vehicle, position, speed, waiting) ==
    [id |-> vehicle.id, type |-> vehicle.type, direction |-> vehicle.direction,
     position |-> position, speed |-> speed, waiting |-> waiting,
     created |-> vehicle.created, lane |-> 0]

\* { ...vehicle, position, speed, waiting }
Updated(vehicle, position, speed, waiting) ==
    [vehicle EXCEPT !.position = position, !.speed = speed,
                    !.waiting = waiting]

UpdateVehicleKeepsSpeed(acc, i, L, speed, deltaTime, now) ==
    LET vehicle == acc.prev[i]
        waiting == WaitingAfter(acc.prev, vehicle, L)
        position == PositionAfter(acc.prev, vehicle, L, speed, deltaTime)
        gone == outOfBounds(position)
    IN  [prev |-> [acc.prev EXCEPT ![i].position = position],
         next |-> IF gone THEN acc.next
                  ELSE Append(acc.next,
                              Updated(vehicle, position, speed, waiting)),
         waitTimes |-> WaitTimesAfter(acc.waitTimes, acc.prev, vehicle, L, now),
         throughputWindow |-> IF gone THEN Append(acc.throughputWindow, now)
                              ELSE acc.throughputWindow,
         completedVehicles |-> IF gone THEN acc.completedVehicles + 1
                               ELSE acc.completedVehicles]

\* The body of prev.map for the vehicle at index i.  acc.prev is the list the
\* updater received: the position objects are updated in place, so the
\* vehicles before i already carry their new positions when find reads them.
\* acc.next is the list returned so far, the removed vehicles left out.
UpdateVehicle(acc, i, L, speed, deltaTime, now) ==
    LET vehicle == acc.prev[i]
        waiting == WaitingAfter(acc.prev, vehicle, L)
        position == PositionAfter(acc.prev, vehicle, L, speed, deltaTime)
        gone == outOfBounds(position)
    IN  [prev |-> [acc.prev EXCEPT ![i].position = position],
         next |-> IF gone THEN acc.next
                  ELSE Append(acc.next,
                              Updated(vehicle, position,
                                      IF waiting THEN 0 ELSE speed, waiting)),
         waitTimes |-> WaitTimesAfter(acc.waitTimes, acc.prev, vehicle, L, now),
         throughputWindow |-> IF gone THEN Append(acc.throughputWindow, now)
                              ELSE acc.throughputWindow,
         completedVehicles |-> IF gone THEN acc.completedVehicles + 1
                               ELSE acc.completedVehicles]

RECURSIVE MapFrom(_, _, _, _, _, _)
\* prev.map from index i on; speeds[i] is the vehicle's draw of Math.random().
MapFrom(acc, i, L, speeds, deltaTime, now) ==
    IF i > Len(acc.prev) THEN acc
    ELSE MapFrom(UpdateVehicle(acc, i, L, speeds[i], deltaTime, now),
                 i + 1, L, speeds, deltaTime, now)

\* The updater of updateVehicles applied to prev, with the refs it writes.
updateVehicles(prev, w, tw, done, L, speeds, deltaTime, now) ==
    MapFrom([prev |-> prev, next |-> <<>>, waitTimes |-> w,
             throughputWindow |-> tw, completedVehicles |-> done],
            1, L, speeds, deltaTime, now)

\* No vehicle is generated on this frame.
NoSpawn == [type |-> "none"]

SpawnChoicesInclusive(deltaTime, id) ==
    LET drawn == {[type |-> t, direction |-> d, lane |-> l, speed |-> s] :
                     t \in VehicleTypes, d \in Directions, l \in Lanes,
                     s \in SpeedChoices}
    IN  IF density * deltaTime < 0 \/ id \notin SpawnIds THEN {NoSpawn}
        ELSE IF density * deltaTime >= 2 * SpawnRange THEN drawn
        ELSE drawn \cup {NoSpawn}

\* The outcomes of Math.random() * 100 < density * deltaTime and of the draws
\* of generateVehicle.  The test can succeed when density * deltaTime > 0 and
\* must when density * deltaTime >= 100 (deltaTime in seconds).
SpawnChoices(deltaTime, id) ==
    LET drawn == {[type |-> t, direction |-> d, lane |-> l, speed |-> s] :
                     t \in VehicleTypes, d \in Directions, l \in Lanes,
                     s \in SpeedChoices}
    IN  IF density * deltaTime <= 0 \/ id \notin SpawnIds THEN {NoSpawn}
        ELSE IF density * deltaTime >= 2 * SpawnRange THEN drawn
        ELSE drawn \cup {NoSpawn}

\* setVehicles(prev => [...prev, {...}]) of generateVehicle
generateVehicle(prev, spawn, id, now) ==
    IF spawn = NoSpawn THEN prev
    ELSE Append(prev, NewVehicle(id, spawn.type, spawn.direction, spawn.lane,
                                 spawn.speed, now))

\* The vehicle list of the render whose updateStats the statistics interval
\* calls: the interval is installed once, by an effect without dependencies.
MountVehicles == <<>>

\* throughputWindowRef.current.filter(time => time > oneMinuteAgo)
PrunedInclusive(tw, now) ==
    SelectSeq(tw, LAMBDA time : time >= now - MinuteLength)

Pruned(tw, now) == SelectSeq(tw, LAMBDA time : time > now - MinuteLength)

RECURSIVE Sum(_)
Sum(w) == IF Len(w) = 0 THEN 0 ELSE Head(w) + Sum(Tail(w))

\* waitTimesRef.current.slice(-100)
RecentWaitTimes(w) ==
    IF Len(w) <= WaitWindow THEN w ELSE SubSeq(w, Len(w) - WaitWindow + 1, Len(w))

\* Math.round(avgWaitTime * 10) / 10, in tenths of a second (the samples are
\* half seconds)
AverageWaitTime(w) ==
    LET recent == RecentWaitTimes(w)
    IN  IF Len(recent) > 0
        THEN (10 * Sum(recent) + Len(recent)) \div (2 * Len(recent))
        ELSE 0

InitialStats ==
    [averageWaitTime |-> 0, throughput |-> 0, totalVehicles |-> 0,
     stoppedVehicles |-> 0]

\* The refs and state cells of the animation loop after construction.
KinInit ==
    /\ density = InitialDensity
    /\ clock = 0
    /\ lastFrameTime = 0
    /\ vehicleIdCounter = 0
    /\ waitTimes = <<>>
    /\ throughputWindow = <<>>
    /\ completedVehicles = 0
    /\ stats = InitialStats
    /\ waitLog = <<>>
    /\ frameLights = trafficLights
    /\ lightDue = TickPeriod
    /\ lastTick = 0

(***************************************************************************)
(* The state after construction and the callbacks.                         *)
(***************************************************************************)
\* The vehicle lists of at most MaxVehicles vehicles, one per choice of counts.
TrafficScenes ==
    LET Counts == {c \in (0..MaxVehicles) \X (0..MaxVehicles)
                          \X (0..MaxVehicles) \X (0..MaxVehicles) :
                      c[1] + c[2] + c[3] + c[4] <= MaxVehicles}
    IN  {Traffic(c[1], c[2], c[3], c[4]) : c \in Counts}

\* The vehicle lists the strategies are evaluated on.
EvalScenes ==
    {Traffic(c[1], c[2], c[3], c[4]) :
        c \in (0..MaxWaiting) \X (0..MaxWaiting)
              \X (0..MaxApproaching) \X (0..MaxApproaching)}

\* InitialLights with the two axes exchanged: EW at the start of a green phase,
\* the state lines 361-365 are written to produce.  It is an input of the
\* optimization callback only; no run from Init reaches it.
MirroredLights ==
    [ns |-> InitialLights["ew"], ew |-> InitialLights["ns"]]

Init ==
    /\ isRunning = TRUE
    /\ optimizationEnabled = FALSE
    /\ algorithmType = "adaptive"
    /\ trafficLights = InitialLights
    /\ vehicles = <<>>
    /\ prevLights = InitialLights
    /\ lastOp = "init"
    /\ KinInit

\* The callback of the light interval: setTrafficLights.  The pending animate
\* stays the one of the render before the callback.
LightCallback ==
    /\ isRunning
    /\ trafficLights' =
           TickedLights(trafficLights, optimizationEnabled, algorithmType, vehicles)
    /\ prevLights' = trafficLights
    /\ lastOp' = "tick"
    /\ UNCHANGED kinVars
    /\ frameLights' = trafficLights
    /\ UNCHANGED <<isRunning, optimizationEnabled, algorithmType, vehicles>>

\* setInterval(..., 1000) of the traffic light timing effect, the times at
\* which it fires left open
LightTick ==
    /\ LightCallback
    /\ UNCHANGED <<lightDue, lastTick>>

\* The installed light interval fires: its period has run since it was set,
\* and it is due again one period later.
LightInterval ==
    /\ clock >= lightDue
    /\ LightCallback
    /\ lightDue' = lightDue + TickPeriod
    /\ lastTick' = clock

\* setInterval(..., 2000) of the traffic optimization effect
OptimizationUpdate ==
    /\ isRunning
    /\ optimizationEnabled
    /\ trafficLights' = OptimizedLights(trafficLights, algorithmType, vehicles)
    /\ prevLights' = trafficLights
    /\ lastOp' = "optimize"
    /\ UNCHANGED kinVars
    /\ frameLights' = trafficLights
    /\ UNCHANGED <<lightDue, lastTick>>
    /\ UNCHANGED <<isRunning, optimizationEnabled, algorithmType, vehicles>>

\* onClick={() => setIsRunning(!isRunning)}
ToggleRunning ==
    /\ isRunning' = ~isRunning
    /\ prevLights' = trafficLights
    /\ lastOp' = "config"
    /\ UNCHANGED kinVars
    /\ Rendered
    /\ IntervalRestarted
    /\ lastTick' = clock
    /\ UNCHANGED <<optimizationEnabled, algorithmType, trafficLights, vehicles>>

\* onCheckedChange={setOptimizationEnabled}
SetOptimizationEnabled ==
    /\ optimizationEnabled' = ~optimizationEnabled
    /\ prevLights' = trafficLights
    /\ lastOp' = "config"
    /\ UNCHANGED kinVars
    /\ Rendered
    /\ IntervalRestarted
    /\ UNCHANGED lastTick
    /\ UNCHANGED <<isRunning, algorithmType, trafficLights, vehicles>>

\* onValueChange={setAlgorithmType}
SetAlgorithmType ==
    /\ \E a \in AlgorithmTypes \ {algorithmType} : algorithmType' = a
    /\ prevLights' = trafficLights
    /\ lastOp' = "config"
    /\ UNCHANGED kinVars
    /\ Rendered
    /\ IntervalRestarted
    /\ UNCHANGED lastTick
    /\ UNCHANGED <<isRunning, optimizationEnabled, trafficLights, vehicles>>

\* The animation frame replaces the vehicle list (spawn, stop, resume, removal);
\* the lights see the new per-axis counts.
VehiclesChange ==
    /\ isRunning
    /\ \E vs \in TrafficScenes \ {vehicles} : vehicles' = vs
    /\ prevLights' = trafficLights
    /\ lastOp' = "frame"
    /\ UNCHANGED kinVars
    /\ Rendered
    /\ IntervalRestarted
    /\ UNCHANGED lastTick
    /\ UNCHANGED <<isRunning, optimizationEnabled, algorithmType, trafficLights>>

Next ==
    \/ LightTick
    \/ OptimizationUpdate
    \/ ToggleRunning
    \/ SetOptimizationEnabled
    \/ SetAlgorithmType
    \/ VehiclesChange

Spec == Init /\ [][Next]_vars

(***************************************************************************)
(* The simulation left running, with the algorithm left on its initial     *)
(* choice (adaptive) and one vehicle waiting at the red EW light: the two  *)
(* timers and the optimization switch.  The light interval keeps firing    *)
(* while its effect is installed, which is weak fairness of the tick.      *)
(***************************************************************************)
RunInit ==
    /\ isRunning = TRUE
    /\ optimizationEnabled = FALSE
    /\ algorithmType = "adaptive"
    /\ trafficLights = InitialLights
    /\ vehicles = Traffic(0, 1, 0, 0)
    /\ prevLights = InitialLights
    /\ lastOp = "frame"
    /\ KinInit

RunNext ==
    \/ LightTick
    \/ OptimizationUpdate
    \/ SetOptimizationEnabled

RunSpec == RunInit /\ [][RunNext]_vars /\ WF_vars(LightTick)

TypeOK ==
    /\ isRunning \in BOOLEAN
    /\ optimizationEnabled \in BOOLEAN
    /\ algorithmType \in AlgorithmTypes
    /\ \A d \in LightDirections :
          /\ trafficLights[d].state \in LightStates
          /\ trafficLights[d].duration \in Nat
          /\ trafficLights[d].timeLeft \in Int
          /\ trafficLights[d].countdown \in Nat

(***************************************************************************)
(* The fixed-timing scenario: algorithmType = fixed and optimization on    *)
(* from the start, and left so.                                            *)
(***************************************************************************)
FixedInit ==
    /\ isRunning = TRUE
    /\ optimizationEnabled = TRUE
    /\ algorithmType = "fixed"
    /\ trafficLights = InitialLights
    /\ vehicles = <<>>
    /\ prevLights = InitialLights
    /\ lastOp = "init"
    /\ KinInit

FixedNext ==
    \/ LightTick
    \/ OptimizationUpdate
    \/ ToggleRunning
    \/ VehiclesChange

FixedSpec == FixedInit /\ [][FixedNext]_vars

(***************************************************************************)
(* The strategies as functions: the optimization callback applied, again   *)
(* and again, to a light at the start of its green phase under each        *)
(* algorithm and each pair of per-axis counts.                             *)
(***************************************************************************)
EvalInit ==
    /\ isRunning = TRUE
    /\ optimizationEnabled = TRUE
    /\ algorithmType \in AlgorithmTypes
    /\ trafficLights \in {InitialLights, MirroredLights}
    /\ vehicles \in EvalScenes
    /\ prevLights = trafficLights
    /\ lastOp = "init"
    /\ KinInit

EvalNext == OptimizationUpdate

EvalSpec == EvalInit /\ [][EvalNext]_vars

(***************************************************************************)
(* The animation loop and the statistics interval as callbacks.            *)
(***************************************************************************)
\* Date.now() advances by half a second.
TimePasses ==
    /\ clock < MaxClock
    /\ clock' = clock + 1
    /\ prevLights' = trafficLights
    /\ lastOp' = "time"
    /\ UNCHANGED <<isRunning, optimizationEnabled, algorithmType, trafficLights,
                   vehicles, density, lastFrameTime, vehicleIdCounter,
                   waitTimes, throughputWindow, completedVehicles, stats,
                   waitLog, lightDue, lastTick>>
    /\ Rendered

\* The vehicle of that id is in the list and waiting.
IsWaitingIn(vs, id) == \E i \in DOMAIN vs : vs[i].id = id /\ vs[i].waiting

\* The log after a pass from prev to next at time now: a vehicle the pass
\* stopped is entered with now, one that stays stopped keeps its entry, one
\* the pass set moving again keeps it marked as resumed, and the entry of a
\* vehicle that was moving already is dropped.
LogAfter(log, prev, next, now) ==
    LET ids == {next[j].id : j \in {k \in DOMAIN next :
                   \/ next[k].waiting /\ ~IsWaitingIn(prev, next[k].id)
                   \/ /\ next[k].id \in DOMAIN log
                      /\ IsWaitingIn(prev, next[k].id)}}
    IN  [id \in ids |->
            IF ~IsWaitingIn(prev, id) THEN [stopped |-> now, resumed |-> FALSE]
            ELSE [log[id] EXCEPT !.resumed = ~IsWaitingIn(next, id)]]

\* The body of animate past its early return.  The two setVehicles updaters
\* (the append of generateVehicle, then the pass of updateVehicles) run in
\* that order.
Frame ==
    /\ LET deltaTime == clock - lastFrameTime
       IN  \E spawn \in SpawnChoices(deltaTime, vehicleIdCounter) :
           LET spawned == generateVehicle(vehicles, spawn, vehicleIdCounter, clock)
           IN  \E speeds \in [DOMAIN spawned -> SpeedChoices] :
              LET pass == updateVehicles(spawned, waitTimes, throughputWindow,
                                         completedVehicles, frameLights,
                                         speeds, deltaTime, clock)
              IN  /\ vehicles' = pass.next
                  /\ waitTimes' = pass.waitTimes
                  /\ throughputWindow' = pass.throughputWindow
                  /\ completedVehicles' = pass.completedVehicles
                  /\ vehicleIdCounter' =
                         IF spawn = NoSpawn THEN vehicleIdCounter
                         ELSE vehicleIdCounter + 1
                  /\ waitLog' = LogAfter(waitLog, spawned, pass.next, clock)
    /\ lastFrameTime' = clock
    /\ prevLights' = trafficLights
    /\ lastOp' = "animate"
    /\ UNCHANGED <<isRunning, optimizationEnabled, algorithmType, trafficLights,
                   density, clock, stats, lastTick>>
    /\ Rendered
    /\ IntervalRestarted

AnimateWhilePaused == Frame

\* animate: one animation frame; a paused frame only requests the next one.
Animate ==
    /\ isRunning
    /\ Frame

\* setInterval(() => updateStats(), 1000) of the mount effect
UpdateStats ==
    /\ throughputWindow' = Pruned(throughputWindow, clock)
    /\ stats' =
           [averageWaitTime |-> AverageWaitTime(waitTimes),
            throughput |-> Len(Pruned(throughputWindow, clock)),
            totalVehicles |-> Len(MountVehicles),
            stoppedVehicles |->
                Cardinality({i \in DOMAIN MountVehicles : MountVehicles[i].waiting})]
    /\ prevLights' = trafficLights
    /\ lastOp' = "stats"
    /\ UNCHANGED <<isRunning, optimizationEnabled, algorithmType, trafficLights,
                   vehicles, density, clock, lastFrameTime, vehicleIdCounter,
                   waitTimes, completedVehicles, waitLog, lightDue, lastTick>>
    /\ Rendered

\* React renders after a light interval has called setTrafficLights: the
\* animation effect, which depends on trafficLights, cancels the pending
\* frame and requests one for the animate of this render.
Render ==
    /\ frameLights # trafficLights
    /\ frameLights' = trafficLights
    /\ prevLights' = trafficLights
    /\ lastOp' = "render"
    /\ UNCHANGED <<isRunning, optimizationEnabled, algorithmType, trafficLights,
                   vehicles, density, clock, lastFrameTime, vehicleIdCounter,
                   waitTimes, throughputWindow, completedVehicles, stats,
                   waitLog, lightDue, lastTick>>

\* onValueChange={value => setDensity(value[0])}
SetDensity ==
    /\ \E value \in DensityChoices \ {density} : density' = value
    /\ prevLights' = trafficLights
    /\ lastOp' = "config"
    /\ UNCHANGED <<isRunning, optimizationEnabled, algorithmType, trafficLights,
                   vehicles, clock, lastFrameTime, vehicleIdCounter, waitTimes,
                   throughputWindow, completedVehicles, stats, waitLog,
                   lightDue, lastTick>>
    /\ Rendered

(***************************************************************************)
(* The road with vehicles on it.  The initial states are scenes: the       *)
(* lists of one vehicle, or of a leader and a follower in one lane, that   *)
(* earlier frames leave on the road, under the initial lights and under    *)
(* the lights with the axes exchanged, together with the empty road of the *)
(* mounted component.                                                      *)
(***************************************************************************)
\* The pixels from the spawn position to the stop line of the direction.
StopLine(direction) ==
    IF direction \in {"east", "west"}
    THEN center.x - RoadWidth + SpawnMargin
    ELSE center.y - RoadWidth + SpawnMargin

\* The pixels from the spawn position to the edge of the removal margin.
PathLength(direction) ==
    IF direction \in {"east", "west"}
    THEN canvasWidth + SpawnMargin + BoundsMargin
    ELSE canvasHeight + SpawnMargin + BoundsMargin

\* The position a vehicle has after travelling so many pixels from its spawn.
Along(direction, lane, travelled) ==
    LET from == SpawnPosition(direction, lane)
    IN  CASE direction = "north" -> [from EXCEPT !.y = from.y - travelled]
          [] direction = "south" -> [from EXCEPT !.y = from.y + travelled]
          [] direction = "east"  -> [from EXCEPT !.x = from.x + travelled]
          [] direction = "west"  -> [from EXCEPT !.x = from.x - travelled]

\* A vehicle generated earlier, now so many pixels down its lane.
Placed(id, type, direction, lane, travelled, waiting) ==
    [id |-> id, type |-> type, direction |-> direction,
     position |-> Along(direction, lane, travelled),
     speed |-> IF waiting THEN 0 ELSE SpeedBase,
     waiting |-> waiting,
     created |-> 0 - (2 * travelled) \div SpeedBase,
     lane |-> lane]

\* The waiting flags a vehicle can carry where it stands: moving, or
\* stopped by an earlier pass at the light or behind the vehicle ahead.
WaitingChoices(prev, vehicle, L) ==
    {FALSE} \cup {w \in {TRUE} : WaitingAfter(prev, vehicle, L)}

\* Where the single vehicle of a scene stands: at its spawn position, inside
\* the approach zone, inside the intersection, and one pass before removal.
ScenePoints(direction) ==
    {0, StopLine(direction) - ApproachLength + 10,
     StopLine(direction) + RoadWidth, PathLength(direction) - 10}

\* Where the leader of a scene stands: early and late in the approach zone.
LeaderPoints(direction) ==
    {StopLine(direction) - ApproachLength + 10,
     StopLine(direction) - ApproachLength + 70}

\* The gaps between leader and follower: below twice the length of a car, of
\* a truck and of a bus, and twice the length of a bus.
SceneGaps == {20, 40, 60}

\* The scenes of one vehicle of the given draws, p pixels down its lane.
SinglesAt(L, t, d, l, p) ==
    LET moving == Placed(0, t, d, l, p, FALSE)
    IN  {<<[moving EXCEPT !.waiting = w,
                          !.speed = IF w THEN 0 ELSE SpeedBase]>> :
             w \in WaitingChoices(<<moving>>, moving, L)}

SingleScenes(L) ==
    UNION {UNION {SinglesAt(L, t, d, l, p) :
                      t \in VehicleTypes, l \in Lanes, p \in ScenePoints(d)} :
               d \in Directions}

\* The scenes of a leader p pixels down the lane, held there when its light
\* is red, and a follower of type t at gap g behind it.
PairsAt(L, t, d, l, p, g) ==
    LET lead == Placed(0, "car", d, l, p, FALSE)
        leader == [lead EXCEPT
                      !.waiting = BlockedByLight(lead, L),
                      !.speed = IF BlockedByLight(lead, L) THEN 0
                                ELSE SpeedBase]
        moving == Placed(1, t, d, l, p - g, FALSE)
    IN  {<<leader, [moving EXCEPT !.waiting = w,
                                  !.speed = IF w THEN 0 ELSE SpeedBase]>> :
             w \in WaitingChoices(<<leader, moving>>, moving, L)}

PairScenes(L) ==
    UNION {UNION {PairsAt(L, t, d, l, p, g) :
                      t \in VehicleTypes, l \in Lanes,
                      p \in LeaderPoints(d), g \in SceneGaps} :
               d \in Directions}

RoadScenes(L) == {<<>>} \cup SingleScenes(L) \cup PairScenes(L)

\* The placeholders the stopped vehicles of a scene have pushed: one for each
\* vehicle stopped at the light.
RECURSIVE SceneWaitTimes(_, _)
SceneWaitTimes(vs, L) ==
    IF Len(vs) = 0 THEN <<>>
    ELSE IF Head(vs).waiting /\ BlockedByLight(Head(vs), L)
    THEN <<0>> \o SceneWaitTimes(Tail(vs), L)
    ELSE SceneWaitTimes(Tail(vs), L)

RoadInit ==
    /\ isRunning = TRUE
    /\ optimizationEnabled = FALSE
    /\ algorithmType = "adaptive"
    /\ trafficLights \in {InitialLights, MirroredLights}
    /\ vehicles \in RoadScenes(trafficLights)
    /\ prevLights = trafficLights
    /\ lastOp = "init"
    /\ density = InitialDensity
    /\ clock = 0
    /\ lastFrameTime = 0
    /\ vehicleIdCounter = Len(vehicles)
    /\ waitTimes = SceneWaitTimes(vehicles, trafficLights)
    /\ throughputWindow = <<>>
    /\ completedVehicles = 0
    /\ stats = InitialStats
    /\ waitLog = <<>>
    /\ frameLights = trafficLights
    /\ lightDue = TickPeriod
    /\ lastTick = 0

RoadNext ==
    \/ TimePasses
    \/ Animate

RoadSpec == RoadInit /\ [][RoadNext]_vars

(***************************************************************************)
(* The mounted component with its animation loop, its statistics interval, *)
(* the pause button and the controls, while time passes.  The lights stay  *)
(* as mounted: the two light timers are not part of these runs.            *)
(***************************************************************************)
PauseNext ==
    \/ TimePasses
    \/ Animate
    \/ UpdateStats
    \/ ToggleRunning
    \/ SetOptimizationEnabled
    \/ SetAlgorithmType
    \/ SetDensity

PauseSpec == Init /\ [][PauseNext]_vars

(***************************************************************************)
(* The running intersection with one car entering the approach zone of its *)
(* direction, under the lights of the mounted component.  The animation    *)
(* frame is requested again by every frame and the light interval keeps    *)
(* firing while the simulation runs, which is weak fairness of both.       *)
(***************************************************************************)
ApproachInit ==
    /\ isRunning = TRUE
    /\ optimizationEnabled = FALSE
    /\ algorithmType = "adaptive"
    /\ trafficLights = InitialLights
    /\ \E d \in Directions :
          vehicles = <<Placed(0, "car", d, 0,
                              StopLine(d) - ApproachLength + 10, FALSE)>>
    /\ prevLights = InitialLights
    /\ lastOp = "init"
    /\ density = InitialDensity
    /\ clock = 0
    /\ lastFrameTime = 0
    /\ vehicleIdCounter = 1
    /\ waitTimes = <<>>
    /\ throughputWindow = <<>>
    /\ completedVehicles = 0
    /\ stats = InitialStats
    /\ waitLog = <<>>
    /\ frameLights = trafficLights
    /\ lightDue = TickPeriod
    /\ lastTick = 0

ApproachNext ==
    \/ TimePasses
    \/ Animate
    \/ LightTick

ApproachSpec ==
    /\ ApproachInit
    /\ [][ApproachNext]_vars
    /\ WF_vars(TimePasses)
    /\ WF_vars(Animate)
    /\ WF_vars(LightTick)

(***************************************************************************)
(* The mounted component with its animation loop and its light interval    *)
(* while time passes: the light interval fires when its period has run     *)
(* since the traffic light timing effect installed it.                     *)
(***************************************************************************)
TimerNext ==
    \/ TimePasses
    \/ Animate
    \/ LightInterval
    \/ Render

TimerSpec == Init /\ [][TimerNext]_vars

(***************************************************************************)
(* The light callback next to the animation frame around a light           *)
(* transition: the lights one tick before the end of the first green phase *)
(* of north-south, one car in the approach zone of each direction, and     *)
(* the callback, the frame and the render of React in every order.         *)
(***************************************************************************)
\* The lights BaseDuration - 1 ticks after construction, the optimization
\* off: the EW countdown has run out and NS has one tick of green left.
LateGreenLights ==
    [InitialLights EXCEPT !["ns"].timeLeft = 1, !["ew"].countdown = 0]

RaceInit ==
    /\ isRunning = TRUE
    /\ optimizationEnabled = FALSE
    /\ algorithmType = "adaptive"
    /\ trafficLights = LateGreenLights
    /\ \E d \in Directions :
          vehicles = <<Placed(0, "car", d, 0,
                              StopLine(d) - ApproachLength + 10, FALSE)>>
    /\ prevLights = trafficLights
    /\ lastOp = "init"
    /\ density = InitialDensity
    /\ clock = 0
    /\ lastFrameTime = 0
    /\ vehicleIdCounter = 1
    /\ waitTimes = <<>>
    /\ throughputWindow = <<>>
    /\ completedVehicles = 0
    /\ stats = InitialStats
    /\ waitLog = <<>>
    /\ frameLights = trafficLights
    /\ lightDue = TickPeriod
    /\ lastTick = 0

RaceNext ==
    \/ TimePasses
    \/ Animate
    \/ LightTick
    \/ Render

RaceSpec == RaceInit /\ [][RaceNext]_vars

(***************************************************************************)
(* The resolution step as a function: the light tick applied to lights     *)
(* that are both green, for each pair of their timeLeft, and on from       *)
(* there.  No run from Init reaches such lights; they are inputs of the    *)
(* tick computation only.                                                  *)
(***************************************************************************)
BothGreenLights(nsLeft, ewLeft) ==
    [ns |-> [state |-> "green", duration |-> BaseDuration,
             timeLeft |-> nsLeft, countdown |-> 0],
     ew |-> [state |-> "green", duration |-> BaseDuration,
             timeLeft |-> ewLeft, countdown |-> 0]]

ResolveInit ==
    /\ isRunning = TRUE
    /\ optimizationEnabled = FALSE
    /\ algorithmType = "adaptive"
    /\ \E nsLeft, ewLeft \in 1..MaxGreenLeft :
          trafficLights = BothGreenLights(nsLeft, ewLeft)
    /\ vehicles = <<>>
    /\ prevLights = trafficLights
    /\ lastOp = "init"
    /\ KinInit

ResolveNext == LightTick

ResolveSpec == ResolveInit /\ [][ResolveNext]_vars

(***************************************************************************)
(* The statistics interval next to the animation loop.  The initial states *)
(* are those a snapshot at time 0 leaves: a throughput window of           *)
(* completions of the last minute, oldest first, and a road that is empty  *)
(* or holds one car about to leave the canvas.                             *)
(***************************************************************************)
\* Completion times that turn 60 s old while the clock runs, and time 0.
StampChoices == {k - MinuteLength : k \in 1..(MaxClock + 1)} \cup {0}

\* The windows of at most MaxStamps timestamps in the order of their pushes.
StampWindows ==
    {tw \in UNION {[1..n -> StampChoices] : n \in 0..MaxStamps} :
        \A i, j \in DOMAIN tw : i < j => tw[i] <= tw[j]}

\* One car 10 px short of the removal margin of its direction, or no vehicle.
ExitScenes ==
    {<<>>} \cup {<<Placed(0, "car", d, 0, PathLength(d) - 10, FALSE)>> :
                    d \in Directions}

StatsInit ==
    /\ isRunning = TRUE
    /\ optimizationEnabled = FALSE
    /\ algorithmType = "adaptive"
    /\ trafficLights = InitialLights
    /\ vehicles \in ExitScenes
    /\ prevLights = trafficLights
    /\ lastOp = "init"
    /\ density = InitialDensity
    /\ clock = 0
    /\ lastFrameTime = 0
    /\ vehicleIdCounter = 1
    /\ waitTimes = <<>>
    /\ throughputWindow \in StampWindows
    /\ completedVehicles = Len(throughputWindow)
    /\ stats = [InitialStats EXCEPT !.throughput = Len(throughputWindow)]
    /\ waitLog = <<>>
    /\ frameLights = trafficLights
    /\ lightDue = TickPeriod
    /\ lastTick = 0

StatsNext ==
    \/ TimePasses
    \/ Animate
    \/ UpdateStats

StatsSpec == StatsInit /\ [][StatsNext]_vars

(***************************************************************************)
(* One vehicle alone on the north-south axis under its green light, at its *)
(* spawn position, in the approach zone, in the intersection or on the     *)
(* last leg before the removal margin; no other vehicle is generated.  The *)
(* frames and the statistics interval keep firing while the simulation     *)
(* runs, which is weak fairness of both.                                   *)
(***************************************************************************)
\* The pixels before the removal margin that two half seconds of travel at the
\* lowest speed cover.
LastLeg == SpeedBase - 10

TripPoints(direction) ==
    {0, StopLine(direction) - ApproachLength + 10,
     StopLine(direction) + RoadWidth, PathLength(direction) - LastLeg}

TripInit ==
    /\ isRunning = TRUE
    /\ optimizationEnabled = FALSE
    /\ algorithmType = "adaptive"
    /\ trafficLights = InitialLights
    /\ \E d \in {"north", "south"} : \E l \in Lanes : \E p \in TripPoints(d) :
          vehicles = <<Placed(0, "car", d, l, p, FALSE)>>
    /\ prevLights = InitialLights
    /\ lastOp = "init"
    /\ density = InitialDensity
    /\ clock = 0
    /\ lastFrameTime = 0
    /\ vehicleIdCounter = 1
    /\ waitTimes = <<>>
    /\ throughputWindow = <<>>
    /\ completedVehicles = 0
    /\ stats = InitialStats
    /\ waitLog = <<>>
    /\ frameLights = trafficLights
    /\ lightDue = TickPeriod
    /\ lastTick = 0

TripNext ==
    \/ TimePasses
    \/ Animate
    \/ UpdateStats

TripSpec ==
    /\ TripInit
    /\ [][TripNext]_vars
    /\ WF_vars(TimePasses)
    /\ WF_vars(Animate)
    /\ WF_vars(UpdateStats)

(***************************************************************************)
(* The spawn test as a function of density: the empty road of the mounted  *)
(* component with the density drawn from 0 and the initial value, and left  *)
(* there.                                                                  *)
(***************************************************************************)
DensityInit ==
    /\ isRunning = TRUE
    /\ optimizationEnabled = FALSE
    /\ algorithmType = "adaptive"
    /\ trafficLights = InitialLights
    /\ vehicles = <<>>
    /\ prevLights = InitialLights
    /\ lastOp = "init"
    /\ density \in {0, InitialDensity}
    /\ clock = 0
    /\ lastFrameTime = 0
    /\ vehicleIdCounter = 0
    /\ waitTimes = <<>>
    /\ throughputWindow = <<>>
    /\ completedVehicles = 0
    /\ stats = InitialStats
    /\ waitLog = <<>>
    /\ frameLights = trafficLights
    /\ lightDue = TickPeriod
    /\ lastTick = 0

DensityNext ==
    \/ TimePasses
    \/ Animate
    \/ UpdateStats

DensitySpec == DensityInit /\ [][DensityNext]_vars

(***************************************************************************)
(* Properties.                                                             *)
(***************************************************************************)
Other(d) == IF d = "ns" THEN "ew" ELSE "ns"

\* The light of direction d entered state st in the last step.
Entered(d, st) == prevLights[d].state # st /\ trafficLights[d].state = st

\* The counts the strategies compare for the light of direction d.
OwnWaiting(d) == IF d = "ns" THEN nsWaiting(vehicles) ELSE ewWaiting(vehicles)
OtherWaiting(d) == IF d = "ns" THEN ewWaiting(vehicles) ELSE nsWaiting(vehicles)
OwnScore(d) ==
    IF d = "ns" THEN TrafficScore(nsWaiting(vehicles), nsApproaching(vehicles))
                ELSE TrafficScore(ewWaiting(vehicles), ewApproaching(vehicles))
OtherScore(d) == OwnScore(Other(d))

\* C1: in every state reached by light ticks, optimization updates, algorithm
\* switches, optimization toggles and pause/resume, at most one of the two
\* lights is green.
C1_MutualExclusion ==
    ~(trafficLights["ns"].state = "green" /\ trafficLights["ew"].state = "green")

\* A tick has just run, after an optimization update changed a duration and
\* after the algorithm was switched, and a light is green.
C1_Witness ==
    /\ lastOp = "tick"
    /\ algorithmType = "predictive"
    /\ trafficLights["ns"].state = "green"
    /\ trafficLights["ns"].duration = AdaptiveMin

\* C2: while the simulation is running each axis is green infinitely often; in
\* particular EW, which starts red with countdown 3, eventually turns green.
C2_BothAxesCycle ==
    /\ []<>(trafficLights["ns"].state = "green")
    /\ []<>(trafficLights["ew"].state = "green")

\* C3: whenever one light is green or yellow, the other light is red.
C3_OneAxisNonRed ==
    \A d \in LightDirections :
        trafficLights[d].state \in {"green", "yellow"}
            => trafficLights[Other(d)].state = "red"

\* A tick has just turned a light yellow while the other light is red.
C3_Witness ==
    /\ lastOp = "tick"
    /\ Entered("ns", "yellow")
    /\ trafficLights["ew"].state = "red"

C5_DurationWithinActiveRange ==
    \A d \in LightDirections :
        /\ algorithmType = "adaptive"
             => trafficLights[d].duration \in AdaptiveMin..AdaptiveMax
        /\ algorithmType = "predictive"
             => trafficLights[d].duration \in PredictiveMin..PredictiveMax

\* C6: with algorithmType = fixed and optimization on from the initial state,
\* the duration of both lights is 20 in every state and every green phase
\* starts with timeLeft 20.
C6_FixedDurationTwenty ==
    \A d \in LightDirections :
        /\ trafficLights[d].duration = BaseDuration
        /\ Entered(d, "green") => trafficLights[d].timeLeft = BaseDuration

\* A tick has just started a green phase in the fixed scenario.
C6_Witness ==
    /\ lastOp = "tick"
    /\ algorithmType = "fixed"
    /\ optimizationEnabled
    /\ Entered("ns", "green")

\* The strategies are inactive: optimization is off or the algorithm is fixed.
Inactive == ~optimizationEnabled \/ algorithmType = "fixed"

\* C7: once optimization is off or the algorithm is fixed while a light's
\* duration differs from 20, that duration returns to 20 (unless a strategy is
\* made active again first).
C7_DurationReturnsToBaseline ==
    \A d \in LightDirections :
        (Inactive /\ trafficLights[d].duration # BaseDuration)
            ~> (trafficLights[d].duration = BaseDuration \/ ~Inactive)

\* C8: timeLeft of both lights is never negative.
C8_TimeLeftNonNegative ==
    \A d \in LightDirections : trafficLights[d].timeLeft >= 0

\* A tick has just run on a light whose timeLeft was already 0, after an
\* optimization update cut the timeLeft of the green light.
C8_Witness ==
    /\ lastOp = "tick"
    /\ prevLights["ew"].timeLeft = 0
    /\ trafficLights["ew"].timeLeft = 0
    /\ trafficLights["ns"].state = "green"
    /\ trafficLights["ns"].duration < BaseDuration

\* The case of C9: an adaptive evaluation of green EW with 10 vehicles waiting on
\* NS and 1 on EW has just run.
C9_Case ==
    /\ lastOp = "optimize"
    /\ algorithmType = "adaptive"
    /\ prevLights["ew"].state = "green"
    /\ nsWaiting(vehicles) = 10
    /\ ewWaiting(vehicles) = 1

C10_Case(d) ==
    /\ lastOp = "optimize"
    /\ prevLights[d].state = "green"
    /\ \/ algorithmType = "adaptive" /\ OtherWaiting(d) = 0
       \/ algorithmType = "predictive" /\ OtherScore(d) = 0

C11_PauseFreezes ==
    /\ [][~isRunning =>
             /\ trafficLights' = trafficLights
             /\ vehicles' = vehicles
             /\ vehicleIdCounter' = vehicleIdCounter]_vars
    /\ [](~isRunning =>
             /\ ~ENABLED LightTick
             /\ ~ENABLED OptimizationUpdate
             /\ ~ENABLED Animate
             /\ ENABLED SetDensity
             /\ ENABLED SetOptimizationEnabled
             /\ ENABLED SetAlgorithmType)
    /\ [](isRunning => (ENABLED OptimizationUpdate <=> optimizationEnabled))

\* Paused with a moving vehicle on the road and time gone by since the last
\* frame, the three controls changed.
C11_Witness ==
    /\ ~isRunning
    /\ lastOp = "config"
    /\ density # InitialDensity
    /\ optimizationEnabled
    /\ algorithmType = "fixed"
    /\ Len(vehicles) = 1
    /\ ~vehicles[1].waiting
    /\ clock > lastFrameTime

\* C12: while the simulation runs no vehicle stays waiting with speed 0
\* forever: again and again no live vehicle is waiting.
C12_NoVehicleWaitsForever ==
    []<>(\A i \in DOMAIN vehicles :
            ~(vehicles[i].waiting /\ vehicles[i].speed = 0))

\* The position lies beyond the canvas by more than the margin.
BeyondMargin(position) ==
    \/ position.x < 0 - BoundsMargin
    \/ position.x > canvasWidth + BoundsMargin
    \/ position.y < 0 - BoundsMargin
    \/ position.y > canvasHeight + BoundsMargin

\* The indices of the vehicles the step removes from the live list.
Removed == {i \in DOMAIN vehicles :
               \A j \in DOMAIN vehicles' : vehicles'[j].id # vehicles[i].id}

\* The indices of the vehicles the step adds to the live list.
Added == {j \in DOMAIN vehicles' :
             \A i \in DOMAIN vehicles : vehicles[i].id # vehicles'[j].id}

\* C13: a step removes a vehicle only on a pass that leaves it beyond the
\* canvas by more than the 50-unit margin, no vehicle that is beyond it stays
\* live, a removed id never comes back (the live ids are distinct and below
\* the counter, a new vehicle takes the counter), and the step appends exactly
\* one timestamp, the time of the pass, per removed vehicle.
C13_RemovedOnceBeyondMargin ==
    [][/\ \A i \in Removed :
             \/ BeyondMargin(vehicles[i].position)
             \/ \E speed \in SpeedChoices :
                   BeyondMargin(Moved(vehicles[i].direction, vehicles[i].lane,
                                      vehicles[i].position, speed,
                                      clock - lastFrameTime))
       /\ \A j \in DOMAIN vehicles' : ~BeyondMargin(vehicles'[j].position)
       /\ \A j \in Added : vehicles'[j].id = vehicleIdCounter
       /\ \A j, k \in DOMAIN vehicles' :
             /\ vehicles'[j].id < vehicleIdCounter'
             /\ vehicles'[j].id = vehicles'[k].id => j = k
       /\ throughputWindow' =
             throughputWindow \o [k \in 1..Cardinality(Removed) |-> clock]
       /\ completedVehicles' = completedVehicles + Cardinality(Removed)
      ]_vars

\* A pass has removed the only vehicle and recorded its completion.
C13_Witness ==
    /\ lastOp = "animate"
    /\ vehicles = <<>>
    /\ vehicleIdCounter = 1
    /\ completedVehicles = 1
    /\ throughputWindow = <<clock>>

\* C14: a vehicle that is live before and after a step has the same direction
\* and the same lane; the light tick, the optimization update, the statistics
\* update, the pause button and the three controls cannot change the vehicle
\* list at all.
C14_DirectionAndLaneFixed ==
    /\ [][\A i \in DOMAIN vehicles : \A j \in DOMAIN vehicles' :
             vehicles'[j].id = vehicles[i].id =>
                 /\ vehicles'[j].direction = vehicles[i].direction
                 /\ vehicles'[j].lane = vehicles[i].lane]_vars
    /\ [](/\ ~ENABLED (LightTick /\ vehicles' # vehicles)
          /\ ~ENABLED (OptimizationUpdate /\ vehicles' # vehicles)
          /\ ~ENABLED (UpdateStats /\ vehicles' # vehicles)
          /\ ~ENABLED (ToggleRunning /\ vehicles' # vehicles)
          /\ ~ENABLED (SetDensity /\ vehicles' # vehicles)
          /\ ~ENABLED (SetOptimizationEnabled /\ vehicles' # vehicles)
          /\ ~ENABLED (SetAlgorithmType /\ vehicles' # vehicles))

\* A westbound vehicle of lane 1 that a pass has moved on from where the
\* scene placed it, behind a leader.
C14_Witness ==
    /\ lastOp = "animate"
    /\ Len(vehicles) = 2
    /\ vehicles[2].direction = "west"
    /\ vehicles[2].lane = 1
    /\ ~vehicles[2].waiting
    /\ vehicles[2].speed > SpeedBase

\* The pixels the vehicle has travelled from the spawn position of its
\* direction, along the direction.
Travelled(v) ==
    CASE v.direction = "north" -> canvasHeight + SpawnMargin - v.position.y
      [] v.direction = "south" -> v.position.y + SpawnMargin
      [] v.direction = "east"  -> v.position.x + SpawnMargin
      [] v.direction = "west"  -> canvasWidth + SpawnMargin - v.position.x

\* C15: for every vehicle live before and after a step the coordinate along
\* the travel direction never decreases; it is unchanged when the vehicle is
\* waiting after the step, and it has grown when the step is a pass over a
\* positive deltaTime that leaves the vehicle moving, whether or not the
\* vehicle was waiting before the pass.
C15_NeverBackwards ==
    [][\A i \in DOMAIN vehicles : \A j \in DOMAIN vehicles' :
          vehicles'[j].id = vehicles[i].id =>
              /\ Travelled(vehicles'[j]) >= Travelled(vehicles[i])
              /\ vehicles'[j].waiting =>
                     vehicles'[j].position = vehicles[i].position
              /\ (/\ ~vehicles'[j].waiting
                  /\ lastOp' = "animate"
                  /\ clock > lastFrameTime)
                     => Travelled(vehicles'[j]) > Travelled(vehicles[i])]_vars

\* A vehicle that a pass of the run stopped and a later pass, the last one,
\* set moving again.
C15_Witness ==
    /\ lastOp = "animate"
    /\ \E i \in DOMAIN vehicles :
          /\ vehicles[i].id \in DOMAIN waitLog
          /\ waitLog[vehicles[i].id].resumed
          /\ ~vehicles[i].waiting
          /\ waitLog[vehicles[i].id].stopped < clock

\* The coordinate of the vehicle across its travel direction.
Lateral(v) ==
    IF v.direction \in {"north", "south"} THEN v.position.x ELSE v.position.y

\* The lateral coordinate of a lane: half a lane plus lane lanes from the
\* centre, to the right of the travel direction.
LaneLateral(direction, lane) ==
    CASE direction = "north" -> HalfWidth + (15 + 30 * lane)
      [] direction = "south" -> HalfWidth - (15 + 30 * lane)
      [] direction = "east"  -> HalfHeight + (15 + 30 * lane)
      [] direction = "west"  -> HalfHeight - (15 + 30 * lane)

\* C16: every live vehicle with waiting = FALSE has the lateral coordinate of
\* its (direction, lane); generateVehicle and the moving pass assign that
\* same coordinate for each of the four directions and both lanes.
C16_LaneDiscipline ==
    /\ \A i \in DOMAIN vehicles :
          ~vehicles[i].waiting =>
              Lateral(vehicles[i])
                  = LaneLateral(vehicles[i].direction, vehicles[i].lane)
    /\ \A d \in Directions : \A l \in Lanes : \A s \in SpeedChoices :
          LET spawnedAt == NewVehicle(0, "car", d, l, s, clock)
              movedTo == [spawnedAt EXCEPT !.position =
                             Moved(d, l, spawnedAt.position, s, clock - lastFrameTime)]
          IN  /\ Lateral(spawnedAt) = LaneLateral(d, l)
              /\ Lateral(movedTo) = LaneLateral(d, l)

\* A southbound vehicle of lane 1 generated during the run and moved by the
\* pass of its first frame.
C16_Witness ==
    /\ lastOp = "animate"
    /\ \E i \in DOMAIN vehicles :
          /\ vehicles[i].created > 0
          /\ vehicles[i].direction = "south"
          /\ vehicles[i].lane = 1
          /\ ~vehicles[i].waiting
          /\ vehicles[i].position # SpawnPosition("south", 1)

\* The pass of this step sets the vehicle of that id moving again, after the
\* vehicle has been stopped since the pass the log names.
ResumesNow(id) ==
    /\ lastOp' = "animate"
    /\ id \in DOMAIN waitLog
    /\ ~waitLog[id].resumed
    /\ id \in DOMAIN waitLog'
    /\ waitLog'[id].resumed

\* C17: when a pass sets a vehicle moving again that has waited at least
\* 0.5 s, whether a light or a vehicle ahead had stopped it, the wait-time
\* window holds after the pass a sample equal to the time the vehicle waited.
C17_WaitSample ==
    [][\A id \in DOMAIN waitLog :
          (ResumesNow(id) /\ clock - waitLog[id].stopped >= SampleThreshold)
              => \E k \in DOMAIN waitTimes' :
                     waitTimes'[k] = clock - waitLog[id].stopped]_vars

\* follower stands strictly behind leader in its direction and lane, with a
\* longitudinal gap smaller than twice its own length.
CloseBehind(follower, leader) ==
    /\ follower.id # leader.id
    /\ follower.direction = leader.direction
    /\ follower.lane = leader.lane
    /\ Travelled(follower) < Travelled(leader)
    /\ Travelled(leader) - Travelled(follower)
           < 2 * (CASE follower.type = "car" -> CarLength
                    [] follower.type = "truck" -> TruckLength
                    [] follower.type = "bus" -> BusLength)

\* The leader stands at its red light: waiting with speed 0, in the approach
\* zone and not in the intersection, its axis not green.
StationaryAtRed(leader) ==
    /\ leader.waiting
    /\ leader.speed = 0
    /\ BlockedByLight(leader, trafficLights)

\* C19: a pass leaves every follower that stands close behind a leader
\* stationary at a red light waiting, with speed 0 and at the position it
\* had, inside the approach zone or outside it.
C19_FollowerStopsBehindLeader ==
    [][lastOp' = "animate" =>
          \A i, k \in DOMAIN vehicles :
              (StationaryAtRed(vehicles[k]) /\ CloseBehind(vehicles[i], vehicles[k]))
                  => \E j \in DOMAIN vehicles' :
                         /\ vehicles'[j].id = vehicles[i].id
                         /\ vehicles'[j].waiting
                         /\ vehicles'[j].speed = 0
                         /\ vehicles'[j].position = vehicles[i].position]_vars

\* A pass has stopped a moving follower outside the approach zone, close
\* behind a leader stationary at its red light.
C19_Witness ==
    /\ lastOp = "animate"
    /\ \E i, k \in DOMAIN vehicles :
          /\ StationaryAtRed(vehicles[k])
          /\ CloseBehind(vehicles[i], vehicles[k])
          /\ ~approachingIntersection(vehicles[i].direction, vehicles[i].position)
          /\ vehicles[i].waiting
          /\ vehicles[i].id \in DOMAIN waitLog
          /\ waitLog[vehicles[i].id] = [stopped |-> clock, resumed |-> FALSE]

\* The completion timestamps of the window that are at most, and that are
\* less than, 60 s old at time now.
AtMostAMinuteOld(tw, now) == {k \in DOMAIN tw : now - tw[k] <= MinuteLength}
LessThanAMinuteOld(tw, now) == {k \in DOMAIN tw : now - tw[k] < MinuteLength}

\* C20 as stated: every statistics snapshot reports as throughput the number
\* of completion timestamps that are at most 60 s old at snapshot time.
C20_ThroughputCountsAtMostAMinute ==
    [][lastOp' = "stats" =>
          stats'.throughput
              = Cardinality(AtMostAMinuteOld(throughputWindow, clock))]_vars

\* C20 amended: every statistics snapshot reports as throughput the number of
\* completion timestamps that are less than 60 s old at snapshot time, and
\* leaves exactly those in the window, in their order: a timestamp 60 s old
\* or older is pruned before counting.
C20_ThroughputCountsLastMinute ==
    [][lastOp' = "stats" =>
          /\ stats'.throughput
                 = Cardinality(LessThanAMinuteOld(throughputWindow, clock))
          /\ Len(throughputWindow') = stats'.throughput
          /\ \A k \in DOMAIN throughputWindow' :
                 clock - throughputWindow'[k] < MinuteLength
          /\ \A k \in LessThanAMinuteOld(throughputWindow, clock) :
                 \E n \in DOMAIN throughputWindow' :
                     throughputWindow'[n] = throughputWindow[k]]_vars

\* A snapshot has pruned a timestamp and counted the removal of the run.
C20_Witness ==
    /\ lastOp = "stats"
    /\ Len(throughputWindow) < completedVehicles
    /\ stats.throughput = Len(throughputWindow)
    /\ \E k \in DOMAIN throughputWindow : throughputWindow[k] > 0

\* The single vehicle is on the last leg before the removal margin.
OnLastLeg ==
    /\ Len(vehicles) = 1
    /\ Travelled(vehicles[1]) >= PathLength(vehicles[1].direction) - LastLeg

C21_SnapshotCountsLiveVehicles ==
    lastOp = "stats" =>
        /\ stats.totalVehicles = Len(vehicles)
        /\ stats.stoppedVehicles
               = Cardinality({i \in DOMAIN vehicles : vehicles[i].waiting})

\* C22: with density = 0 no frame generates a vehicle, whatever its
\* deltaTime: the vehicle list stays empty, no id is handed out and
\* totalVehicles stays 0.
C22_ZeroDensityNeverSpawns ==
    density = 0 =>
        /\ vehicles = <<>>
        /\ vehicleIdCounter = 0
        /\ stats.totalVehicles = 0
        /\ \A deltaTime \in 0..MaxClock :
               SpawnChoices(deltaTime, vehicleIdCounter) = {NoSpawn}

\* Frames have run with density 0 up to the last half second, and a
\* snapshot has been taken.
C22_Witness ==
    /\ density = 0
    /\ clock = MaxClock
    /\ lastFrameTime = MaxClock
    /\ lastOp = "stats"

\* C23: in every pass the waiting flag of each vehicle is the one decided
\* from the positions all vehicles had before the pass began.
C23_PassReadsSnapshot ==
    [][lastOp' = "animate" =>
          \A i \in DOMAIN vehicles : \A j \in DOMAIN vehicles' :
              vehicles'[j].id = vehicles[i].id =>
                  vehicles'[j].waiting
                      = WaitingAfter(vehicles, vehicles[i], trafficLights)]_vars

\* C24: every kinematics pass reads the light states of the most recent
\* light transition: the lights of the animate that runs have the states the
\* component holds.
C24_PassReadsCurrentLights ==
    [][lastOp' = "animate" =>
          \A d \in LightDirections :
              frameLights[d].state = trafficLights[d].state]_vars

\* C25: while the simulation runs, the light tick is due whenever a second
\* has passed since the last tick, whatever vehicle-state updates have
\* re-created the interval in between.
C25_TickDueEverySecond ==
    (isRunning /\ clock - lastTick >= TickPeriod) => clock >= lightDue

\* The lights that differ from L in the countdown fields only.
CountdownVariants(L) ==
    {[ns |-> [L["ns"] EXCEPT !.countdown = a],
      ew |-> [L["ew"] EXCEPT !.countdown = b]] : a, b \in 0..CountdownStart}

\* state, duration and timeLeft of both lights.
Authoritative(L) ==
    [d \in LightDirections |->
        [state |-> L[d].state, duration |-> L[d].duration,
         timeLeft |-> L[d].timeLeft]]

FoundByTick ==
    EwCountdownComplete(NsCountdownComplete(
        AfterTransitions(trafficLights, optimizationEnabled, algorithmType,
                         vehicles)))

\* C27: when the tick computation finds both lights green, the tick leaves
\* exactly one of them green: NS, with the timeLeft found, when its timeLeft
\* is the larger or the two are equal, and EW otherwise; the other light is
\* red.
C27_ResolutionKeepsLargerGreen ==
    [][(/\ lastOp' = "tick"
        /\ FoundByTick["ns"].state = "green"
        /\ FoundByTick["ew"].state = "green")
          => IF FoundByTick["ns"].timeLeft >= FoundByTick["ew"].timeLeft
             THEN /\ trafficLights'["ns"].state = "green"
                  /\ trafficLights'["ns"].timeLeft = FoundByTick["ns"].timeLeft
                  /\ trafficLights'["ew"].state = "red"
             ELSE /\ trafficLights'["ew"].state = "green"
                  /\ trafficLights'["ew"].timeLeft = FoundByTick["ew"].timeLeft
                  /\ trafficLights'["ns"].state = "red"]_vars

\* A tick has found both lights green, EW with the larger timeLeft, and has
\* forced NS to red.
C27_Witness ==
    /\ lastOp = "tick"
    /\ prevLights["ns"].state = "green"
    /\ prevLights["ew"].state = "green"
    /\ prevLights["ns"].timeLeft > 1
    /\ prevLights["ns"].timeLeft < prevLights["ew"].timeLeft
    /\ trafficLights["ns"].state = "red"
    /\ trafficLights["ew"].state = "green"

\* The changes of state of the cycle green -> yellow -> red -> green.
CycleSteps ==
    {<<"green", "yellow">>, <<"yellow", "red">>, <<"red", "green">>}

\* C28: over every light tick the state of each light stays as it is or
\* changes along green -> yellow, yellow -> red or red -> green, so that a
\* light is never seen going yellow -> green or green -> red.
C28_StatesFollowTheCycle ==
    [][lastOp' = "tick" =>
          \A d \in LightDirections :
              \/ trafficLights'[d].state = trafficLights[d].state
              \/ <<trafficLights[d].state, trafficLights'[d].state>>
                     \in CycleSteps]_vars

\* The value the tick computes when the light of direction d turns red: the
\* strategy applied to the traffic of the opposite axis.
ComputedAtRed(d) ==
    IF d = "ns"
    THEN RedTimeLeft(optimizationEnabled, algorithmType,
                     ewWaiting(vehicles), ewApproaching(vehicles))
    ELSE RedTimeLeft(optimizationEnabled, algorithmType,
                     nsWaiting(vehicles), nsApproaching(vehicles))

OppositeAxis(d) == IF d = "ns" THEN "ew" ELSE "ns"

\* C29: the tick that takes a light from yellow to red leaves the value it
\* computes by the active strategy as the duration of the opposite light,
\* the length of that light's next green phase.
C29_ComputedValueIsNextGreen ==
    [][\A d \in LightDirections :
          (/\ lastOp' = "tick"
           /\ trafficLights[d].state = "yellow"
           /\ trafficLights[d].timeLeft <= 1)
              => trafficLights'[OppositeAxis(d)].duration = ComputedAtRed(d)]_vars

\* The waiting count of the axis of light d, and that of the opposite axis.
WaitingOn(d) == IF d = "ns" THEN nsWaiting(vehicles) ELSE ewWaiting(vehicles)

\* C30: an adaptive optimization update leaves on the green light d, with w
\* vehicles waiting on its axis and other on the opposite one, a duration
\* that is shorter (unless already 10) and not below 10 when w < 0.7 * other,
\* longer (unless already 30) and not above 30 when w > 1.5 * other, and
\* the baseline 20 in every other case.
C30_AdaptiveDurationByCase ==
    [][\A d \in LightDirections :
          (/\ lastOp' = "optimize"
           /\ algorithmType = "adaptive"
           /\ trafficLights[d].state = "green")
              => LET w == WaitingOn(d)
                     other == WaitingOn(OppositeAxis(d))
                     old == trafficLights[d].duration
                     new == trafficLights'[d].duration
                 IN  IF 10 * w < 7 * other
                     THEN new >= AdaptiveMin /\ (old > AdaptiveMin => new < old)
                     ELSE IF 2 * w > 3 * other
                     THEN new <= AdaptiveMax /\ (old < AdaptiveMax => new > old)
                     ELSE new = BaseDuration]_vars

(***************************************************************************)
(* The road with one vehicle and a wait-time array that earlier stops have *)
(* filled: waitTimesRef.current holds the samples of the vehicles that     *)
(* waited and left, then the placeholders of the vehicles of the scene.    *)
(***************************************************************************)
\* n samples of waits of one second, written by resumes of earlier vehicles.
EarlierSamples(n) == [i \in 1..n |-> 2]

\* The arrays that end with the placeholders of the scene: those alone, and
\* the array of exactly WaitWindow elements.
WindowWaitTimes(vs, L) ==
    {EarlierSamples(n) \o SceneWaitTimes(vs, L) :
        n \in {0, WaitWindow - Len(SceneWaitTimes(vs, L))}}

WindowInit ==
    /\ isRunning = TRUE
    /\ optimizationEnabled = FALSE
    /\ algorithmType = "adaptive"
    /\ trafficLights \in {InitialLights, MirroredLights}
    /\ vehicles \in {<<>>} \cup SingleScenes(trafficLights)
    /\ prevLights = trafficLights
    /\ lastOp = "init"
    /\ density = InitialDensity
    /\ clock = 0
    /\ lastFrameTime = 0
    /\ vehicleIdCounter = Len(vehicles)
    /\ waitTimes \in WindowWaitTimes(vehicles, trafficLights)
    /\ throughputWindow = <<>>
    /\ completedVehicles = 0
    /\ stats = InitialStats
    /\ waitLog = <<>>
    /\ frameLights = trafficLights
    /\ lightDue = TickPeriod
    /\ lastTick = 0

WindowNext ==
    \/ TimePasses
    \/ Animate
    \/ UpdateStats

WindowSpec == WindowInit /\ [][WindowNext]_vars

(***************************************************************************)
(* The road with one car near the stop line of its direction: on the outer *)
(* edge of the approach zone, inside the zone, on the stop line itself and *)
(* inside the intersection, under the initial lights and under the lights  *)
(* with the axes exchanged.                                                *)
(***************************************************************************)
\* Where the car of a scene stands, in pixels from its spawn position.
LinePoints(direction) ==
    {StopLine(direction) - ApproachLength, StopLine(direction) - 20,
     StopLine(direction), StopLine(direction) + 20}

LineScenes(L) ==
    UNION {UNION {SinglesAt(L, "car", d, l, p) :
                      l \in Lanes, p \in LinePoints(d)} :
               d \in Directions}

LineInit ==
    /\ isRunning = TRUE
    /\ optimizationEnabled = FALSE
    /\ algorithmType = "adaptive"
    /\ trafficLights \in {InitialLights, MirroredLights}
    /\ vehicles \in LineScenes(trafficLights)
    /\ prevLights = trafficLights
    /\ lastOp = "init"
    /\ density = InitialDensity
    /\ clock = 0
    /\ lastFrameTime = 0
    /\ vehicleIdCounter = Len(vehicles)
    /\ waitTimes = SceneWaitTimes(vehicles, trafficLights)
    /\ throughputWindow = <<>>
    /\ completedVehicles = 0
    /\ stats = InitialStats
    /\ waitLog = <<>>
    /\ frameLights = trafficLights
    /\ lightDue = TickPeriod
    /\ lastTick = 0

LineNext ==
    \/ TimePasses
    \/ Animate

LineSpec == LineInit /\ [][LineNext]_vars

(***************************************************************************)
(* The road under the initial lights with a car held at the red light of   *)
(* the east-west axis, its placeholder in the wait-time array, and three   *)
(* cars 20 px apart in one lane of the north-south axis, in the order in   *)
(* which they were generated.                                              *)
(***************************************************************************)
\* The car at the red light, then the leader and its two followers.
ChainAt(e, d, l, p) ==
    <<Placed(0, "car", e, 0, StopLine(e) - 50, TRUE),
      Placed(1, "car", d, l, p, FALSE),
      Placed(2, "car", d, l, p - 20, FALSE),
      Placed(3, "car", d, l, p - 40, FALSE)>>

ChainScenes ==
    {ChainAt(e, d, 0, StopLine(d) - 20) :
        e \in {"east", "west"}, d \in {"north", "south"}}

ChainInit ==
    /\ isRunning = TRUE
    /\ optimizationEnabled = FALSE
    /\ algorithmType = "adaptive"
    /\ trafficLights = InitialLights
    /\ vehicles \in ChainScenes
    /\ prevLights = trafficLights
    /\ lastOp = "init"
    /\ density = InitialDensity
    /\ clock = 0
    /\ lastFrameTime = 0
    /\ vehicleIdCounter = Len(vehicles)
    /\ waitTimes = SceneWaitTimes(vehicles, trafficLights)
    /\ throughputWindow = <<>>
    /\ completedVehicles = 0
    /\ stats = InitialStats
    /\ waitLog = <<>>
    /\ frameLights = trafficLights
    /\ lightDue = TickPeriod
    /\ lastTick = 0

ChainNext ==
    \/ TimePasses
    \/ Animate

ChainSpec == ChainInit /\ [][ChainNext]_vars

(***************************************************************************)
(* Properties of pauses, of car-following and of the wait-time window.     *)
(***************************************************************************)
\* deltaTime of the next frame (line 407), in half seconds: what it scales
\* the displacement of every moving vehicle and the spawn trial by.
PendingDeltaTime == clock - lastFrameTime

\* C31: the time spent paused is not counted as elapsed time: no step taken
\* while isRunning = FALSE adds to the time by which the first frame after
\* the resume moves the vehicles and scales the spawn trial.
C31_PauseNotCountedAsElapsed ==
    [][~isRunning => PendingDeltaTime' <= PendingDeltaTime]_vars

\* a and b travel in the same direction and lane.
SameLane(a, b) == a.direction = b.direction /\ a.lane = b.lane

\* C32: a pass never brings a vehicle B level with or ahead of a vehicle A of
\* its direction and lane that was strictly ahead of it before the pass and
\* is live after it, provided the pass moves B by less than twice the
\* length of B.
C32_NoOvertaking ==
    [][lastOp' = "animate" =>
          \A a, b \in DOMAIN vehicles : \A a2, b2 \in DOMAIN vehicles' :
              (/\ vehicles'[a2].id = vehicles[a].id
               /\ vehicles'[b2].id = vehicles[b].id
               /\ SameLane(vehicles[a], vehicles[b])
               /\ Travelled(vehicles[a]) > Travelled(vehicles[b])
               /\ Travelled(vehicles'[b2]) - Travelled(vehicles[b])
                      < 2 * vehicleLength(vehicles[b].type))
                  => Travelled(vehicles'[a2]) > Travelled(vehicles'[b2])]_vars

\* A pass has left a follower moving at less than the smallest gap of the
\* scenes behind a leader that the pass held at its light: the follower has
\* closed in on the leader and is still strictly behind it.
C32_Witness ==
    /\ lastOp = "animate"
    /\ \E a, b \in DOMAIN vehicles :
          /\ SameLane(vehicles[a], vehicles[b])
          /\ vehicles[a].waiting
          /\ ~vehicles[b].waiting
          /\ Travelled(vehicles[a]) > Travelled(vehicles[b])
          /\ \A g \in SceneGaps :
                 Travelled(vehicles[a]) - Travelled(vehicles[b]) < g

\* C33: waitTimesRef.current never holds more than 100 samples, and a
\* statistics snapshot taken while it is empty reports averageWaitTime 0.
C33_WindowBounded ==
    /\ Len(waitTimes) <= WaitWindow
    /\ (lastOp = "stats" /\ Len(waitTimes) = 0) => stats.averageWaitTime = 0

\* C34: every live vehicle is waiting exactly when its speed is 0, and the
\* speed of a vehicle that is not waiting lies in [40, 60).
C34_WaitingIffStopped ==
    \A i \in DOMAIN vehicles :
        /\ vehicles[i].waiting <=> vehicles[i].speed = 0
        /\ ~vehicles[i].waiting =>
               /\ vehicles[i].speed >= SpeedBase
               /\ vehicles[i].speed < SpeedBase + SpeedSpread

\* A pass has stopped one vehicle of a lane and left the other moving at a
\* speed it has drawn anew.
C34_Witness ==
    /\ lastOp = "animate"
    /\ \E i, j \in DOMAIN vehicles :
          /\ vehicles[i].waiting
          /\ vehicles[i].speed = 0
          /\ vehicles[i].id \in DOMAIN waitLog
          /\ waitLog[vehicles[i].id].stopped = clock
          /\ ~vehicles[j].waiting
          /\ vehicles[j].speed > SpeedBase

(***************************************************************************)
(* Properties of the green phase, of the optimization update and of the    *)
(* stop at a red light.                                                    *)
(***************************************************************************)
\* The lights a tick holds when it reaches the countdown completion of light
\* d: after the transition blocks, and for EW after the completion of NS.
BeforeCompletion(d) ==
    LET mid == AfterTransitions(trafficLights, optimizationEnabled,
                                algorithmType, vehicles)
    IN  IF d = "ns" THEN mid ELSE NsCountdownComplete(mid)

\* The lights a tick holds when it reaches the safety check.
BeforeSafetyCheck ==
    EwCountdownComplete(NsCountdownComplete(
        AfterTransitions(trafficLights, optimizationEnabled, algorithmType,
                         vehicles)))

\* C35: a light that is green after a step and was not before has been made
\* green by a tick, which held both lights red and the light's countdown at
\* 0 just before the change; and no tick of a run from the initial state
\* reaches its safety check with both lights green.
C35_GreenOnlyFromBothRed ==
    [][/\ \A d \in LightDirections :
              (trafficLights'[d].state = "green" /\ trafficLights[d].state # "green")
                  => /\ (lastOp' = "tick")
                     /\ BeforeCompletion(d)["ns"].state = "red"
                     /\ BeforeCompletion(d)["ew"].state = "red"
                     /\ BeforeCompletion(d)[d].countdown = 0
       /\ (lastOp' = "tick") =>
              ~(/\ BeforeSafetyCheck["ns"].state = "green"
                /\ BeforeSafetyCheck["ew"].state = "green")]_vars

\* A tick has just made NS green again, EW red with its countdown started.
C35_Witness ==
    /\ lastOp = "tick"
    /\ prevLights["ns"].state # "green"
    /\ trafficLights["ns"].state = "green"
    /\ trafficLights["ns"].timeLeft = trafficLights["ns"].duration
    /\ trafficLights["ew"].state = "red"
    /\ trafficLights["ew"].countdown = CountdownStart

\* C36: an optimization update leaves the state and the countdown of both
\* lights and every field of a light that is not green as they were, raises
\* no timeLeft, and changes nothing under the fixed algorithm.
C36_UpdateTouchesGreenOnly ==
    [][lastOp' = "optimize" =>
          /\ \A d \in LightDirections :
                 /\ trafficLights'[d].state = trafficLights[d].state
                 /\ trafficLights'[d].countdown = trafficLights[d].countdown
                 /\ trafficLights'[d].timeLeft <= trafficLights[d].timeLeft
                 /\ trafficLights[d].state # "green"
                        => trafficLights'[d] = trafficLights[d]
          /\ algorithmType = "fixed" => trafficLights' = trafficLights]_vars

\* An update has shortened the duration of the green light below the time
\* it had left, and cut that time down to it; the red light is as it was.
C36_Witness ==
    /\ lastOp = "optimize"
    /\ \E d \in LightDirections :
          /\ prevLights[d].state = "green"
          /\ trafficLights[d].duration < prevLights[d].duration
          /\ trafficLights[d].timeLeft < prevLights[d].timeLeft
          /\ trafficLights[d].timeLeft = trafficLights[d].duration
          /\ trafficLights[Other(d)] = prevLights[Other(d)]

\* C37: in every state a green light has timeLeft at most its duration, and
\* a light that a step has made green holds timeLeft equal to its duration
\* after that step, whatever the order of ticks and optimization updates.
C37_GreenTimeWithinDuration ==
    /\ [](\A d \in LightDirections :
              trafficLights[d].state = "green"
                  => trafficLights[d].timeLeft <= trafficLights[d].duration)
    /\ [][\A d \in LightDirections :
              (trafficLights'[d].state = "green" /\ trafficLights[d].state # "green")
                  => trafficLights'[d].timeLeft = trafficLights'[d].duration]_vars

\* A tick has started a green phase of a duration that optimization updates
\* have moved off the baseline.
C37_Witness ==
    /\ lastOp = "tick"
    /\ \E d \in LightDirections :
          /\ prevLights[d].state # "green"
          /\ trafficLights[d].state = "green"
          /\ trafficLights[d].duration # BaseDuration
          /\ trafficLights[d].timeLeft = trafficLights[d].duration

\* The vehicle has not reached the far side of the stop line of its
\* direction and is not inside the intersection box.
BeforeTheBox(v) ==
    /\ Travelled(v) <= StopLine(v.direction)
    /\ ~inIntersection(v.position)

\* C38: a pass whose light for the axis of a vehicle is red, and which moves
\* the vehicle by at most the 100 px of the approach window, leaves a vehicle
\* that had not entered the intersection box outside it; and no pass leaves
\* a vehicle that was inside the box, alone in its lane, waiting.
C38_NoEntryOnRed ==
    [][lastOp' = "animate" =>
          \A i \in DOMAIN vehicles : \A j \in DOMAIN vehicles' :
              vehicles'[j].id = vehicles[i].id =>
                  /\ (/\ frameLights[IF IsNS(vehicles[i]) THEN "ns" ELSE "ew"].state = "red"
                      /\ BeforeTheBox(vehicles[i])
                      /\ Travelled(vehicles'[j]) - Travelled(vehicles[i])
                             <= ApproachLength)
                         => ~inIntersection(vehicles'[j].position)
                  /\ (/\ inIntersection(vehicles[i].position)
                      /\ Len(vehicles) = 1)
                         => ~vehicles'[j].waiting]_vars

\* The 0 placeholders of the wait-time array.
Placeholders == {k \in DOMAIN waitTimes : waitTimes[k] = 0}

\* The vehicles that wait at their red light: those whose stop has pushed a
\* placeholder and that have not resumed.
HeldAtLight ==
    {i \in DOMAIN vehicles :
        vehicles[i].waiting /\ BlockedByLight(vehicles[i], trafficLights)}

\* C39: whatever vehicles have stopped and resumed in between, the wait-time
\* array holds one placeholder for each vehicle still held at its light: no
\* resume of another vehicle has removed or overwritten one, and none is
\* left over.
C39_ResumeWritesOwnSlot ==
    Cardinality(Placeholders) = Cardinality(HeldAtLight)

====
